---- MODULE Spec2Model ----
(***************************************************************************)
(* Model of software/src/robots/xlerobot/xlerobot_host.py: the control     *)
(* loop of main() with its command watchdog, and the ObservationStreamer   *)
(* (bounded queue, background thread, encoder pool).                       *)
(*                                                                         *)
(* Two threads are modelled: the main thread (program counter mpc) and the *)
(* "observation-streamer" thread (program counter tpc).  Wall-clock time   *)
(* is the integer variable clock, advanced by Tick and by time.sleep.      *)
(***************************************************************************)
EXTENDS Integers, Sequences, FiniteSets, TLC

\* ---------------------------------------------------------------- bounds
\* host.watchdog_timeout_ms / 1000, in clock ticks
WatchdogTimeout == 2
\* host.connection_time_s, in clock ticks
ConnectionTime == 5
\* 1 / host.max_loop_freq_hz, in clock ticks
LoopPeriod == 2
\* last clock value at which the environment's Tick may still fire
MaxTime == 5
\* number of messages the remote operator pushes to the command channel
MaxCmds == 2

\* ------------------------------------------------------ program constants
\* queue.Queue(maxsize=2)
QueueMaxSize == 2

\* no message pending / held
NoMsg == [kind |-> "none", pairs |-> << >>]
\* no observation held
NoObs == [none |-> TRUE]
\* the None that stop() enqueues
Sentinel == [sentinel |-> TRUE]

\* ------------------------------------------------------------ data model
AllCameras == {"camA", "camB"}

\* raw values a camera entry of an observation can hold:
\*   "None"      the robot delivered no frame
\*   "img1/2"    frames cv2.imencode encodes
\*   "unenc"     a frame for which cv2.imencode returns ret = False
\*   "corrupt"   a frame on which cv2.imencode raises
Frames == {"None", "img1", "img2", "unenc", "corrupt"}
LoopFrames == {"img1"}

Max(a, b) == IF a >= b THEN a ELSE b

MaxOf(S) == CHOOSE x \in S : \A y \in S : y <= x

\* wire payloads on the command channel; an "object" payload is the text of
\* a JSON object given by its key/value pairs in textual order
WireMsgs ==
    { [kind |-> "object",  pairs |-> << <<"joint1", 5>> >>],
      [kind |-> "object",  pairs |-> << <<"joint1", 1>>, <<"joint1", 7>> >>],
      [kind |-> "garbage", pairs |-> << >>] }

\* json.loads(msg) followed by dict(...): succeeds on a JSON object only
Decodable(m) == m.kind = "object"

\* json.loads keeps the last value of a repeated key
Decode(m) ==
    [k \in {m.pairs[i][1] : i \in DOMAIN m.pairs} |->
        m.pairs[MaxOf({i \in DOMAIN m.pairs : m.pairs[i][1] = k})][2]]

\* ------------------------------------------------------------- encoding
\* base64.b64encode(buffer).decode("utf-8") of the JPEG of a frame
B64Jpeg(frame) == IF frame = "img1" THEN "b64jpg1" ELSE "b64jpg2"

\* ObservationStreamer._encode_frame: outcome of one pool job
\*   [raised |-> TRUE]            the job raised (future.result() re-raises)
\*   [raised |-> FALSE, out |-> s] the job returned the string s
EncodeFrame(frame) ==
    IF frame = "corrupt" THEN [raised |-> TRUE, out |-> ""]
    ELSE IF frame = "unenc" THEN [raised |-> FALSE, out |-> ""]
    ELSE [raised |-> FALSE, out |-> B64Jpeg(frame)]

\* the keys for which _encode_observation submits a job to the pool
SubmittedKeys(keys, observation) ==
    {k \in keys : k \in DOMAIN observation /\ observation[k] # "None"}

\* mutant of EncodeObservation: one failing encode aborts the batch, and
\* every camera entry comes back empty
EncodeObservation_AbortsBatch(keys, pool, observation) ==
    IF pool = "none" THEN observation
    ELSE [k \in DOMAIN observation |->
            IF k \in keys
            THEN IF \E c \in SubmittedKeys(keys, observation) :
                        EncodeFrame(observation[c]).raised
                 THEN ""
                 ELSE IF observation[k] = "None" THEN ""
                 ELSE EncodeFrame(observation[k]).out
            ELSE observation[k]]

\* ObservationStreamer._encode_observation
EncodeObservation(keys, pool, observation) ==
    IF pool = "none" THEN observation
    ELSE [k \in DOMAIN observation |->
            IF k \in keys
            THEN IF observation[k] = "None" THEN ""
                 ELSE IF EncodeFrame(observation[k]).raised THEN ""
                 ELSE EncodeFrame(observation[k]).out
            ELSE observation[k]]

VARIABLES
    camera_keys,      \* ObservationStreamer._camera_keys (as a set)
    clock,            \* wall clock (time.time / time.perf_counter)
    mpc,              \* main thread: position in main()
    tpc,              \* streamer thread: position in _run ("none": no thread)
    cmd_socket,       \* CONFLATE command socket: the one pending message
    arrivals,         \* number of messages pushed by the operator so far
    msg,              \* main(): msg, between recv_string and its decoding
    last_cmd_time,    \* main(): last_cmd_time
    watchdog_active,  \* main(): watchdog_active
    start,            \* main(): start
    duration,         \* main(): duration
    loop_start_time,  \* main(): loop_start_time
    last_observation, \* main(): last_observation
    obs_count,        \* observations produced by robot.get_observation
    queue,            \* ObservationStreamer._queue
    stop_event,       \* ObservationStreamer._stop_event
    pool,             \* ObservationStreamer._encoder_pool
    item,             \* _run(): item
    encoded,          \* _run(): encoded
    obs_socket_open,  \* host.zmq_observation_socket not yet closed
    hist,             \* history of the streamer and the shutdown (ghost)
    loop_hist         \* history of the loop's calls and timing (ghost)

vars == <<camera_keys, clock, mpc, tpc, cmd_socket, arrivals, msg,
          last_cmd_time, watchdog_active, start, duration, loop_start_time,
          last_observation, obs_count, queue, stop_event, pool, item,
          encoded, obs_socket_open, hist, loop_hist>>

\* the variables of the command side of the loop
cmdVars == <<cmd_socket, arrivals, msg, last_cmd_time, watchdog_active>>

\* the variables of the pacing of the loop
paceVars == <<clock, start, duration, loop_start_time>>

\* the variables of the streamer
streamVars == <<queue, stop_event, pool, tpc, item, encoded, obs_socket_open>>

\* the variables of the loop other than its position
loopVars == <<cmdVars, paceVars, last_observation, obs_count, loop_hist>>

\* positions of main() inside the try block
LoopPcs == {"loop_check", "recv", "forward", "watchdog", "stop_base",
            "observe", "publish", "sleep"}

\* threading.Thread.is_alive()
IsAlive == tpc \notin {"none", "exited"}

\* ghost history of the loop
LoopHistInit ==
    [ received      |-> << >>,   \* wire messages returned by recv_string
      send_action   |-> << >>,   \* arguments of robot.send_action calls
      stop_base     |-> 0,       \* robot.stop_base invocations
      stops_since   |-> 0,       \* ... since the last forwarded command
      stop_done     |-> FALSE,   \* stop_base returned since the last forward
      iter_recv     |-> "none",  \* outcome of this iteration's receive
      iter_halted   |-> FALSE,   \* watchdog_active when the iteration began
      poll_time     |-> 0,       \* clock of this iteration's poll/forward
      prompt        |-> TRUE,    \* no evaluation was later than its poll
      last_arrival  |-> 0,       \* clock of the latest arrival (or startup)
      gaps_short    |-> TRUE,    \* every arrival gap was below the timeout
      all_forwarded |-> TRUE,    \* every received message was forwarded
      forwarded_any |-> FALSE ]  \* some command was forwarded successfully

\* ghost history of the streamer and of the shutdown
HistInit ==
    [ published     |-> 0,       \* calls of publish; the n-th has seq n
      accepted      |-> {},      \* observations publish put on the queue
      dropped       |-> {},      \* observations dropped by publish
      late_gets     |-> 0,       \* observations dequeued with the flag set
      sends         |-> << >>,   \* send_string calls: payload, accepted?,
                                 \* calling thread
      shutdown      |-> << >> ]  \* shutdown steps completed

Init ==
    /\ camera_keys \in {{}, {"camA"}}
    /\ clock = 0
    /\ mpc = "loop_check"
    /\ tpc = IF camera_keys = {} THEN "none" ELSE "check"
    /\ cmd_socket = NoMsg
    /\ arrivals = 0
    /\ msg = NoMsg
    /\ last_cmd_time = 0
    /\ watchdog_active = FALSE
    /\ start = 0
    /\ duration = 0
    /\ loop_start_time = 0
    /\ last_observation = NoObs
    /\ obs_count = 0
    /\ queue = << >>
    /\ stop_event = FALSE
    /\ pool = IF camera_keys = {} THEN "none" ELSE "open"
    /\ item = NoObs
    /\ encoded = NoObs
    /\ obs_socket_open = TRUE
    /\ hist = HistInit
    /\ loop_hist = LoopHistInit

\* ------------------------------------------------------------ _send
\* ObservationStreamer._send: send_string(..., NOBLOCK); zmq.Again is
\* caught and the observation is dropped.  connected: a peer can take it.
Sent(h, observation, connected, thread) ==
    [h EXCEPT !.sends = Append(@, [payload |-> observation,
                                   sent |-> connected,
                                   by |-> thread])]

\* ------------------------------------------------------ main(): the loop
\* Control leaves the try block for the finally block.  No statement after
\* the loop reads the loop's locals, the clock or the command socket, so
\* they are dropped from the state here, with the loop's ghost history.
LeaveLoop ==
    /\ mpc' = "robot_disconnect"
    /\ msg' = NoMsg
    /\ cmd_socket' = NoMsg
    /\ arrivals' = 0
    /\ last_cmd_time' = 0
    /\ watchdog_active' = FALSE
    /\ clock' = 0
    /\ start' = 0
    /\ duration' = 0
    /\ loop_start_time' = 0
    /\ last_observation' = NoObs
    /\ loop_hist' = LoopHistInit

\* while duration < host.connection_time_s: loop_start_time = time.time()
M_LoopCheck ==
    /\ mpc = "loop_check"
    /\ IF duration < ConnectionTime
       THEN /\ loop_start_time' = clock
            /\ mpc' = "recv"
            /\ loop_hist' = [loop_hist EXCEPT !.iter_recv = "none",
                                              !.iter_halted = watchdog_active]
            /\ UNCHANGED <<cmdVars, clock, start, duration, last_observation>>
       ELSE LeaveLoop
    /\ UNCHANGED <<camera_keys, obs_count, streamVars, hist>>

\* msg = host.zmq_cmd_socket.recv_string(zmq.NOBLOCK); except zmq.Again
M_Recv ==
    /\ mpc = "recv"
    /\ IF cmd_socket = NoMsg
       THEN /\ mpc' = "watchdog"
            /\ loop_hist' = [loop_hist EXCEPT !.iter_recv = "again",
                                              !.poll_time = clock]
            /\ UNCHANGED <<msg, cmd_socket>>
       ELSE /\ msg' = cmd_socket
            /\ cmd_socket' = NoMsg
            /\ mpc' = "forward"
            /\ loop_hist' = [loop_hist EXCEPT !.received = Append(@, cmd_socket)]
    /\ UNCHANGED <<camera_keys, arrivals, last_cmd_time, watchdog_active,
                   paceVars, last_observation, obs_count, streamVars, hist>>

\* mutant of Forward: a forwarded command does not restart the timer
Forward_NoTimerReset(ok) ==
    /\ mpc = "forward"
    /\ mpc' = "watchdog"
    /\ msg' = NoMsg
    /\ IF ~Decodable(msg)
       THEN /\ loop_hist' = [loop_hist EXCEPT !.iter_recv = "undecodable",
                                              !.all_forwarded = FALSE,
                                              !.poll_time = clock]
            /\ UNCHANGED <<last_cmd_time, watchdog_active>>
       ELSE IF ok
       THEN /\ last_cmd_time' = last_cmd_time
            /\ watchdog_active' = FALSE
            /\ loop_hist' = [loop_hist EXCEPT
                                !.send_action = Append(@, Decode(msg)),
                                !.stops_since = 0,
                                !.stop_done = FALSE,
                                !.forwarded_any = TRUE,
                                !.iter_recv = "forwarded",
                                !.poll_time = clock]
       ELSE /\ loop_hist' = [loop_hist EXCEPT
                                !.send_action = Append(@, Decode(msg)),
                                !.iter_recv = "forward_failed",
                                !.all_forwarded = FALSE,
                                !.poll_time = clock]
            /\ UNCHANGED <<last_cmd_time, watchdog_active>>
    /\ UNCHANGED <<camera_keys, cmd_socket, arrivals, paceVars,
                   last_observation, obs_count, streamVars, hist>>
\* mutant of Forward: a forwarded command leaves the watchdog flag alone
Forward_KeepsFlag(ok) ==
    /\ mpc = "forward"
    /\ mpc' = "watchdog"
    /\ msg' = NoMsg
    /\ IF ~Decodable(msg)
       THEN /\ loop_hist' = [loop_hist EXCEPT !.iter_recv = "undecodable",
                                              !.all_forwarded = FALSE,
                                              !.poll_time = clock]
            /\ UNCHANGED <<last_cmd_time, watchdog_active>>
       ELSE IF ok
       THEN /\ last_cmd_time' = clock
            /\ watchdog_active' = watchdog_active
            /\ loop_hist' = [loop_hist EXCEPT
                                !.send_action = Append(@, Decode(msg)),
                                !.stops_since = 0,
                                !.stop_done = FALSE,
                                !.forwarded_any = TRUE,
                                !.iter_recv = "forwarded",
                                !.poll_time = clock]
       ELSE /\ loop_hist' = [loop_hist EXCEPT
                                !.send_action = Append(@, Decode(msg)),
                                !.iter_recv = "forward_failed",
                                !.all_forwarded = FALSE,
                                !.poll_time = clock]
            /\ UNCHANGED <<last_cmd_time, watchdog_active>>
    /\ UNCHANGED <<camera_keys, cmd_socket, arrivals, paceVars,
                   last_observation, obs_count, streamVars, hist>>
\* mutant of Forward: a send_action that raised is called a second time
Forward_RetriesOnFailure(ok) ==
    /\ mpc = "forward"
    /\ mpc' = "watchdog"
    /\ msg' = NoMsg
    /\ IF ~Decodable(msg)
       THEN /\ loop_hist' = [loop_hist EXCEPT !.iter_recv = "undecodable",
                                              !.all_forwarded = FALSE,
                                              !.poll_time = clock]
            /\ UNCHANGED <<last_cmd_time, watchdog_active>>
       ELSE IF ok
       THEN /\ last_cmd_time' = clock
            /\ watchdog_active' = FALSE
            /\ loop_hist' = [loop_hist EXCEPT
                                !.send_action = Append(@, Decode(msg)),
                                !.stops_since = 0,
                                !.stop_done = FALSE,
                                !.forwarded_any = TRUE,
                                !.iter_recv = "forwarded",
                                !.poll_time = clock]
       ELSE /\ loop_hist' = [loop_hist EXCEPT
                                !.send_action = @ \o <<Decode(msg), Decode(msg)>>,
                                !.iter_recv = "forward_failed",
                                !.all_forwarded = FALSE,
                                !.poll_time = clock]
            /\ UNCHANGED <<last_cmd_time, watchdog_active>>
    /\ UNCHANGED <<camera_keys, cmd_socket, arrivals, paceVars,
                   last_observation, obs_count, streamVars, hist>>
\* mutant of Forward: last_cmd_time is stamped before robot.send_action is
\* called, so a send_action that raises leaves the new time behind
Forward_StampsBeforeSend(ok) ==
    /\ mpc = "forward"
    /\ mpc' = "watchdog"
    /\ msg' = NoMsg
    /\ IF ~Decodable(msg)
       THEN /\ loop_hist' = [loop_hist EXCEPT !.iter_recv = "undecodable",
                                              !.all_forwarded = FALSE,
                                              !.poll_time = clock]
            /\ UNCHANGED <<last_cmd_time, watchdog_active>>
       ELSE IF ok
       THEN /\ last_cmd_time' = clock
            /\ watchdog_active' = FALSE
            /\ loop_hist' = [loop_hist EXCEPT
                                !.send_action = Append(@, Decode(msg)),
                                !.stops_since = 0,
                                !.stop_done = FALSE,
                                !.forwarded_any = TRUE,
                                !.iter_recv = "forwarded",
                                !.poll_time = clock]
       ELSE /\ last_cmd_time' = clock
            /\ loop_hist' = [loop_hist EXCEPT
                                !.send_action = Append(@, Decode(msg)),
                                !.iter_recv = "forward_failed",
                                !.all_forwarded = FALSE,
                                !.poll_time = clock]
            /\ UNCHANGED watchdog_active
    /\ UNCHANGED <<camera_keys, cmd_socket, arrivals, paceVars,
                   last_observation, obs_count, streamVars, hist>>
\* data = dict(json.loads(msg)); robot.send_action(data);
\* last_cmd_time = time.time(); watchdog_active = False; except Exception
\* ok: robot.send_action returns rather than raises
Forward(ok) ==
    /\ mpc = "forward"
    /\ mpc' = "watchdog"
    /\ msg' = NoMsg
    /\ IF ~Decodable(msg)
       THEN /\ loop_hist' = [loop_hist EXCEPT !.iter_recv = "undecodable",
                                              !.all_forwarded = FALSE,
                                              !.poll_time = clock]
            /\ UNCHANGED <<last_cmd_time, watchdog_active>>
       ELSE IF ok
       THEN /\ last_cmd_time' = clock
            /\ watchdog_active' = FALSE
            /\ loop_hist' = [loop_hist EXCEPT
                                !.send_action = Append(@, Decode(msg)),
                                !.stops_since = 0,
                                !.stop_done = FALSE,
                                !.forwarded_any = TRUE,
                                !.iter_recv = "forwarded",
                                !.poll_time = clock]
       ELSE /\ loop_hist' = [loop_hist EXCEPT
                                !.send_action = Append(@, Decode(msg)),
                                !.iter_recv = "forward_failed",
                                !.all_forwarded = FALSE,
                                !.poll_time = clock]
            /\ UNCHANGED <<last_cmd_time, watchdog_active>>
    /\ UNCHANGED <<camera_keys, cmd_socket, arrivals, paceVars,
                   last_observation, obs_count, streamVars, hist>>

M_Forward == \E ok \in BOOLEAN : Forward(ok)

\* mutant of WatchdogExpired: the flag is not consulted
WatchdogExpired_IgnoresFlag(t, last, active) ==
    t - last > WatchdogTimeout

\* mutant of WatchdogExpired: the timer is armed by the first command only
\* (last_cmd_time still holds the time of startup before it)
WatchdogExpired_NeedsCommand(t, last, active) ==
    last # 0 /\ (t - last > WatchdogTimeout) /\ ~active
\* the condition of the watchdog's if statement, with now = t
WatchdogExpired(t, last, active) ==
    (t - last > WatchdogTimeout) /\ ~active

\* mutant of M_Watchdog: the flag is set but robot.stop_base is not called
M_Watchdog_NoStop ==
    /\ mpc = "watchdog"
    /\ IF WatchdogExpired(clock, last_cmd_time, watchdog_active)
       THEN /\ watchdog_active' = TRUE
            /\ mpc' = "observe"
       ELSE /\ mpc' = "observe"
            /\ UNCHANGED watchdog_active
    /\ loop_hist' = [loop_hist EXCEPT
                        !.prompt = @ /\ clock = loop_hist.poll_time,
                        !.poll_time = 0]
    /\ UNCHANGED <<camera_keys, cmd_socket, arrivals, msg, last_cmd_time,
                   paceVars, last_observation, obs_count, streamVars, hist>>

\* now = time.time(); if (...) and not watchdog_active: watchdog_active = True
M_Watchdog ==
    /\ mpc = "watchdog"
    /\ IF WatchdogExpired(clock, last_cmd_time, watchdog_active)
       THEN /\ watchdog_active' = TRUE
            /\ mpc' = "stop_base"
       ELSE /\ mpc' = "observe"
            /\ UNCHANGED watchdog_active
    /\ loop_hist' = [loop_hist EXCEPT
                        !.prompt = @ /\ clock = loop_hist.poll_time,
                        !.poll_time = 0]
    /\ UNCHANGED <<camera_keys, cmd_socket, arrivals, msg, last_cmd_time,
                   paceVars, last_observation, obs_count, streamVars, hist>>

\* robot.stop_base(): returns, or raises out of the loop
StopBase(ok) ==
    /\ mpc = "stop_base"
    /\ IF ok
       THEN /\ mpc' = "observe"
            /\ loop_hist' = [loop_hist EXCEPT !.stop_base = @ + 1,
                                              !.stops_since = @ + 1,
                                              !.stop_done = TRUE]
            /\ UNCHANGED <<cmdVars, paceVars, last_observation>>
       ELSE LeaveLoop
    /\ UNCHANGED <<camera_keys, obs_count, streamVars, hist>>

M_StopBase == \E ok \in BOOLEAN : StopBase(ok)

\* the observations robot.get_observation can return as its n-th
Observations(n) ==
    {[k \in camera_keys \cup {"seq"} |-> IF k = "seq" THEN n ELSE f[k]] :
        f \in [camera_keys -> LoopFrames]}

\* last_observation = robot.get_observation(): returns, or raises out of
\* the loop
Observe(ok) ==
    /\ mpc = "observe"
    /\ IF ok
       THEN /\ \E o \in Observations(obs_count + 1) : last_observation' = o
            /\ obs_count' = obs_count + 1
            /\ mpc' = "publish"
            /\ UNCHANGED <<cmdVars, paceVars, loop_hist>>
       ELSE LeaveLoop /\ UNCHANGED obs_count
    /\ UNCHANGED <<camera_keys, streamVars, hist>>

M_Observe == \E ok \in BOOLEAN : Observe(ok)

\* mutant of Publish: a full queue evicts its oldest entry for the new one
Publish_EvictsOldest(connected) ==
    /\ mpc = "publish"
    /\ mpc' = "sleep"
    /\ IF camera_keys = {}
       THEN /\ hist' = [Sent(hist, last_observation, connected, "main")
                            EXCEPT !.published = @ + 1]
            /\ UNCHANGED queue
       ELSE IF Len(queue) < QueueMaxSize
       THEN /\ queue' = Append(queue, last_observation)
            /\ hist' = [hist EXCEPT
                            !.published = @ + 1,
                            !.accepted = @ \cup {last_observation["seq"]}]
       ELSE /\ hist' = [hist EXCEPT
                            !.published = @ + 1,
                            !.dropped = @ \cup {last_observation["seq"]}]
            /\ queue' = Append(Tail(queue), last_observation)
    /\ UNCHANGED <<camera_keys, cmdVars, paceVars, last_observation,
                   obs_count, stop_event, pool, tpc, item, encoded,
                   obs_socket_open, loop_hist>>
\* mutant of Publish: the observation is queued whether or not there are
\* cameras
Publish_AlwaysEnqueues(connected) ==
    /\ mpc = "publish"
    /\ mpc' = "sleep"
    /\ IF Len(queue) < QueueMaxSize
       THEN /\ queue' = Append(queue, last_observation)
            /\ hist' = [hist EXCEPT
                            !.published = @ + 1,
                            !.accepted = @ \cup {last_observation["seq"]}]
       ELSE /\ hist' = [hist EXCEPT
                            !.published = @ + 1,
                            !.dropped = @ \cup {last_observation["seq"]}]
            /\ UNCHANGED queue
    /\ UNCHANGED <<camera_keys, cmdVars, paceVars, last_observation,
                   obs_count, stop_event, pool, tpc, item, encoded,
                   obs_socket_open, loop_hist>>

\* mutant of Publish: on a full queue the caller sends the observation
\* itself instead of dropping it
Publish_SendsWhenFull(connected) ==
    /\ mpc = "publish"
    /\ mpc' = "sleep"
    /\ IF camera_keys = {}
       THEN /\ hist' = [Sent(hist, last_observation, connected, "main")
                            EXCEPT !.published = @ + 1]
            /\ UNCHANGED queue
       ELSE IF Len(queue) < QueueMaxSize
       THEN /\ queue' = Append(queue, last_observation)
            /\ hist' = [hist EXCEPT
                            !.published = @ + 1,
                            !.accepted = @ \cup {last_observation["seq"]}]
       ELSE /\ hist' = [Sent(hist, last_observation, connected, "main")
                            EXCEPT !.published = @ + 1]
            /\ UNCHANGED queue
    /\ UNCHANGED <<camera_keys, cmdVars, paceVars, last_observation,
                   obs_count, stop_event, pool, tpc, item, encoded,
                   obs_socket_open, loop_hist>>
\* ObservationStreamer.publish, called by streamer.publish(last_observation)
Publish(connected) ==
    /\ mpc = "publish"
    /\ mpc' = "sleep"
    /\ IF camera_keys = {}
       THEN /\ hist' = [Sent(hist, last_observation, connected, "main")
                            EXCEPT !.published = @ + 1]
            /\ UNCHANGED queue
       ELSE IF Len(queue) < QueueMaxSize
       THEN /\ queue' = Append(queue, last_observation)
            /\ hist' = [hist EXCEPT
                            !.published = @ + 1,
                            !.accepted = @ \cup {last_observation["seq"]}]
       ELSE /\ hist' = [hist EXCEPT
                            !.published = @ + 1,
                            !.dropped = @ \cup {last_observation["seq"]}]
            /\ UNCHANGED queue
    /\ UNCHANGED <<camera_keys, cmdVars, paceVars, last_observation,
                   obs_count, stop_event, pool, tpc, item, encoded,
                   obs_socket_open, loop_hist>>

M_Publish == \E connected \in BOOLEAN : Publish(connected)

\* mutant of SleepTime: the remaining time is not clamped at zero
SleepTime_NoClamp(elapsed) == LoopPeriod - elapsed
\* max(1 / host.max_loop_freq_hz - elapsed, 0)
SleepTime(elapsed) == Max(LoopPeriod - elapsed, 0)

\* elapsed = time.time() - loop_start_time; time.sleep(...);
\* duration = time.perf_counter() - start
M_Sleep ==
    /\ mpc = "sleep"
    /\ clock' = clock + SleepTime(clock - loop_start_time)
    /\ duration' = clock' - start
    /\ mpc' = "loop_check"
    /\ UNCHANGED <<camera_keys, cmdVars, start, loop_start_time,
                   last_observation, obs_count, streamVars, hist, loop_hist>>

\* KeyboardInterrupt raised anywhere inside the try block
M_Interrupt ==
    /\ mpc \in LoopPcs
    /\ LeaveLoop
    /\ UNCHANGED <<camera_keys, obs_count, streamVars, hist>>

\* ------------------------------------------------- main(): finally block
\* robot.disconnect()
M_RobotDisconnect ==
    /\ mpc = "robot_disconnect"
    /\ mpc' = "stop_set"
    /\ hist' = [hist EXCEPT !.shutdown = Append(@, "robot_disconnect")]
    /\ UNCHANGED <<camera_keys, loopVars, streamVars>>

\* ObservationStreamer.stop: self._stop_event.set()
M_StopSet ==
    /\ mpc = "stop_set"
    /\ stop_event' = TRUE
    /\ mpc' = "stop_alive"
    /\ UNCHANGED <<camera_keys, loopVars, queue, pool, tpc, item, encoded,
                   obs_socket_open, hist>>

\* mutant of M_StopAlive: stop() skips the sentinel and the join and goes on
\* to the pool while the thread may still be running
M_StopAlive_SkipsJoin ==
    /\ mpc = "stop_alive"
    /\ mpc' = "stop_pool"
    /\ UNCHANGED <<camera_keys, loopVars, streamVars, hist>>
\* if self._thread is not None and self._thread.is_alive()
M_StopAlive ==
    /\ mpc = "stop_alive"
    /\ mpc' = IF IsAlive THEN "stop_put" ELSE "stop_pool"
    /\ UNCHANGED <<camera_keys, loopVars, streamVars, hist>>

\* mutant of M_StopPut: the sentinel is put on the queue whatever it holds
M_StopPut_Unbounded ==
    /\ mpc = "stop_put"
    /\ queue' = Append(queue, Sentinel)
    /\ mpc' = "stop_join"
    /\ UNCHANGED <<camera_keys, loopVars, stop_event, pool, tpc, item,
                   encoded, obs_socket_open, hist>>
\* while True: try: self._queue.put(None, timeout=0.1); break
\*             except queue.Full: continue
M_StopPut ==
    /\ mpc = "stop_put"
    /\ IF Len(queue) < QueueMaxSize
       THEN /\ queue' = Append(queue, Sentinel)
            /\ mpc' = "stop_join"
       ELSE UNCHANGED <<queue, mpc>>
    /\ UNCHANGED <<camera_keys, loopVars, stop_event, pool, tpc, item,
                   encoded, obs_socket_open, hist>>

\* mutant of M_StopJoin: join() returns without waiting for the thread
M_StopJoin_NoWait ==
    /\ mpc = "stop_join"
    /\ mpc' = "stop_pool"
    /\ UNCHANGED <<camera_keys, loopVars, streamVars, hist>>
\* self._thread.join()
M_StopJoin ==
    /\ mpc = "stop_join"
    /\ tpc = "exited"
    /\ mpc' = "stop_pool"
    /\ UNCHANGED <<camera_keys, loopVars, streamVars, hist>>

\* if self._encoder_pool is not None: self._encoder_pool.shutdown(wait=True)
M_StopPool ==
    /\ mpc = "stop_pool"
    /\ pool' = IF pool = "none" THEN "none" ELSE "shutdown"
    /\ mpc' = "host_disconnect"
    /\ hist' = [hist EXCEPT !.shutdown = Append(@, "streamer_stop")]
    /\ UNCHANGED <<camera_keys, loopVars, queue, stop_event, tpc, item,
                   encoded, obs_socket_open>>

\* XLerobotHost.disconnect
M_HostDisconnect ==
    /\ mpc = "host_disconnect"
    /\ obs_socket_open' = FALSE
    /\ mpc' = "done"
    /\ hist' = [hist EXCEPT !.shutdown = Append(@, "host_disconnect")]
    /\ UNCHANGED <<camera_keys, loopVars, queue, stop_event, pool, tpc,
                   item, encoded>>

\* mutant of T_Check: the loop of _run does not test the stop flag and ends
\* on the sentinel only
T_Check_IgnoresFlag ==
    /\ tpc = "check"
    /\ tpc' = "get"
    /\ UNCHANGED <<camera_keys, mpc, loopVars, queue, stop_event, pool,
                   item, encoded, obs_socket_open, hist>>
\* ------------------------------------------- ObservationStreamer._run
\* while not self._stop_event.is_set()
T_Check ==
    /\ tpc = "check"
    /\ tpc' = IF stop_event THEN "exited" ELSE "get"
    /\ UNCHANGED <<camera_keys, mpc, loopVars, queue, stop_event, pool,
                   item, encoded, obs_socket_open, hist>>

\* mutant of T_Get: the thread takes the newest entry of the queue
T_Get_Lifo ==
    /\ tpc = "get"
    /\ IF queue = << >>
       THEN /\ tpc' = "check"
            /\ UNCHANGED <<queue, item, hist>>
       ELSE /\ item' = queue[Len(queue)]
            /\ queue' = SubSeq(queue, 1, Len(queue) - 1)
            /\ tpc' = IF queue[Len(queue)] = Sentinel
                      THEN "exited" ELSE "encode"
            /\ hist' = [hist EXCEPT
                            !.late_gets = IF stop_event
                                             /\ queue[Len(queue)] # Sentinel
                                          THEN @ + 1 ELSE @]
    /\ UNCHANGED <<camera_keys, mpc, loopVars, stop_event, pool, encoded,
                   obs_socket_open>>
\* item = self._queue.get(timeout=0.1); except queue.Empty: continue;
\* if item is None: break
T_Get ==
    /\ tpc = "get"
    /\ IF queue = << >>
       THEN /\ tpc' = "check"
            /\ UNCHANGED <<queue, item, hist>>
       ELSE /\ item' = Head(queue)
            /\ queue' = Tail(queue)
            /\ tpc' = IF Head(queue) = Sentinel THEN "exited" ELSE "encode"
            /\ hist' = [hist EXCEPT
                            !.late_gets = IF stop_event /\ Head(queue) # Sentinel
                                          THEN @ + 1 ELSE @]
    /\ UNCHANGED <<camera_keys, mpc, loopVars, stop_event, pool, encoded,
                   obs_socket_open>>

\* encoded = self._encode_observation(item); a submit on a pool that was
\* shut down raises and ends the thread
T_Encode ==
    /\ tpc = "encode"
    /\ IF pool = "shutdown" /\ SubmittedKeys(camera_keys, item) # {}
       THEN tpc' = "exited" /\ UNCHANGED encoded
       ELSE /\ encoded' = EncodeObservation(camera_keys, pool, item)
            /\ tpc' = "send"
    /\ UNCHANGED <<camera_keys, mpc, loopVars, queue, stop_event, pool,
                   item, obs_socket_open, hist>>

\* mutant of ThreadSend: an observation whose send raised zmq.Again is put
\* back on the queue
ThreadSend_RequeuesOnAgain(connected) ==
    /\ tpc = "send"
    /\ IF ~obs_socket_open
       THEN tpc' = "exited" /\ UNCHANGED hist
       ELSE /\ tpc' = "check"
            /\ hist' = Sent(hist, encoded, connected, "streamer")
    /\ item' = NoObs
    /\ encoded' = NoObs
    /\ queue' = IF ~connected /\ obs_socket_open /\ Len(queue) < QueueMaxSize
                THEN Append(queue, item)
                ELSE queue
    /\ UNCHANGED <<camera_keys, mpc, loopVars, stop_event, pool,
                   obs_socket_open>>
\* self._send(encoded); finally: self._queue.task_done(); a send on a
\* closed socket raises and ends the thread
ThreadSend(connected) ==
    /\ tpc = "send"
    /\ IF ~obs_socket_open
       THEN tpc' = "exited" /\ UNCHANGED hist
       ELSE /\ tpc' = "check"
            /\ hist' = Sent(hist, encoded, connected, "streamer")
    /\ item' = NoObs
    /\ encoded' = NoObs
    /\ UNCHANGED <<camera_keys, mpc, loopVars, queue, stop_event, pool,
                   obs_socket_open>>

T_Send == \E connected \in BOOLEAN : ThreadSend(connected)

\* ------------------------------------------------------- environment
\* The positions of main() at which the model lets wall-clock time pass:
\* inside json.loads / robot.send_action, between the receive and the
\* watchdog's time.time(), and in the rest of the iteration (stop_base,
\* get_observation, publish) before elapsed is measured.
TickPcs == {"forward", "watchdog", "sleep"}

Tick ==
    /\ mpc \in TickPcs
    /\ clock < MaxTime
    /\ clock' = clock + 1
    /\ UNCHANGED <<camera_keys, mpc, cmdVars, start, duration,
                   loop_start_time, last_observation, obs_count, streamVars,
                   hist, loop_hist>>

\* The positions of main() at which the model lets a message arrive: before
\* the receive, while a received message is processed, after the receive
\* and before the watchdog is evaluated, and in the rest of the iteration.
ArrivalPcs == {"recv", "forward", "watchdog", "sleep"}

\* the operator pushes a message; the CONFLATE socket keeps only the latest
CmdArrive ==
    /\ mpc \in ArrivalPcs
    /\ arrivals < MaxCmds
    /\ \E m \in WireMsgs : cmd_socket' = m
    /\ arrivals' = arrivals + 1
    /\ loop_hist' = [loop_hist EXCEPT
                        !.gaps_short = @ /\ clock - loop_hist.last_arrival
                                                < WatchdogTimeout,
                        !.last_arrival = clock]
    /\ UNCHANGED <<camera_keys, mpc, msg, last_cmd_time, watchdog_active,
                   paceVars, last_observation, obs_count, streamVars, hist>>

MainStep ==
    \/ M_LoopCheck \/ M_Recv \/ M_Forward \/ M_Watchdog \/ M_StopBase
    \/ M_Observe \/ M_Publish \/ M_Sleep
    \/ M_RobotDisconnect \/ M_StopSet \/ M_StopAlive \/ M_StopPut
    \/ M_StopJoin \/ M_StopPool \/ M_HostDisconnect

ThreadStep == T_Check \/ T_Get \/ T_Encode \/ T_Send

Next ==
    \/ M_LoopCheck \/ M_Recv \/ M_Forward \/ M_Watchdog \/ M_StopBase
    \/ M_Observe \/ M_Publish \/ M_Sleep \/ M_Interrupt
    \/ M_RobotDisconnect \/ M_StopSet \/ M_StopAlive \/ M_StopPut
    \/ M_StopJoin \/ M_StopPool \/ M_HostDisconnect
    \/ T_Check \/ T_Get \/ T_Encode \/ T_Send
    \/ Tick \/ CmdArrive

Spec == Init /\ [][Next]_vars

TypeOK ==
    /\ mpc \in LoopPcs \cup {"robot_disconnect", "stop_set", "stop_alive",
                             "stop_put", "stop_join", "stop_pool",
                             "host_disconnect", "done"}
    /\ tpc \in {"none", "check", "get", "encode", "send", "exited"}
    /\ Len(queue) <= QueueMaxSize

\* --------------------------------------- _encode_observation in isolation
\* the observations _encode_observation is applied to: any subset of the
\* cameras present, each with any raw value, next to a sensor field
EncInputs ==
    UNION {{[k \in D \cup {"battery"} |-> IF k = "battery" THEN 87 ELSE f[k]] :
                f \in [D -> Frames]} : D \in SUBSET AllCameras}

EncInit ==
    /\ camera_keys \in SUBSET AllCameras
    /\ clock = 0
    /\ mpc = "loop_check"
    /\ tpc = "encode"
    /\ cmd_socket = NoMsg
    /\ arrivals = 0
    /\ msg = NoMsg
    /\ last_cmd_time = 0
    /\ watchdog_active = FALSE
    /\ start = 0
    /\ duration = 0
    /\ loop_start_time = 0
    /\ last_observation = NoObs
    /\ obs_count = 0
    /\ queue = << >>
    /\ stop_event = FALSE
    /\ pool = IF camera_keys = {} THEN "none" ELSE "open"
    /\ item \in EncInputs
    /\ encoded = NoObs
    /\ obs_socket_open = TRUE
    /\ hist = HistInit
    /\ loop_hist = LoopHistInit

EncNext == T_Encode

EncSpec == EncInit /\ [][EncNext]_vars

\* the scheduler runs both threads: a thread that can take a step
\* eventually takes one
FairSpec == Spec /\ WF_vars(MainStep) /\ WF_vars(ThreadStep)

\* ------------------------------------------------------------- claims

\* stop() has returned: main() is past streamer.stop()
StopReturned == mpc \in {"host_disconnect", "done"}

\* C1: ObservationStreamer.stop() always returns, whatever the queue holds
\* and wherever the background thread is when it is called, and when it
\* returns the background thread has exited and the encoder pool is shut
\* down.
C1_StopAlwaysReturns ==
    (mpc = "stop_set") ~> (StopReturned /\ ~IsAlive /\ pool # "open")

\* C5: every way the control loop ends is followed by the complete shutdown
\* sequence robot disconnect, streamer stop, endpoint close, in this order.
C5_ShutdownSequenceCompletes ==
    (mpc = "robot_disconnect")
        ~> (hist.shutdown = <<"robot_disconnect", "streamer_stop",
                              "host_disconnect">>)

\* ---- C2
\* all arrival gaps so far, the gap from startup to the first arrival and
\* the silence since the latest arrival are below the watchdog timeout
GapsShort ==
    /\ loop_hist.gaps_short
    /\ clock - loop_hist.last_arrival < WatchdogTimeout

NeverHalted == ~watchdog_active /\ loop_hist.stop_base = 0

C3_StopBaseOncePerSilence ==
    mpc \in LoopPcs =>
        /\ loop_hist.stops_since <= 1
        /\ (mpc \in {"observe", "publish"}
                /\ clock - last_cmd_time > WatchdogTimeout)
            => (loop_hist.stops_since = 1 /\ watchdog_active)
        /\ loop_hist.stops_since = 1 => watchdog_active

\* a later iteration of the same silence: its watchdog evaluation is over,
\* the timeout is still exceeded, and stop_base was called once in all
C3_Witness ==
    /\ mpc = "observe"
    /\ loop_hist.iter_halted
    /\ clock - last_cmd_time > WatchdogTimeout
    /\ loop_hist.stops_since = 1
    /\ loop_hist.stop_base = 1

\* ---- C4
\* the seq numbers of the observations held by a sequence of observations
SeqsOf(obsSeq) ==
    {obsSeq[i]["seq"] : i \in {j \in DOMAIN obsSeq : obsSeq[j] # Sentinel}}

\* everything the pipeline still holds or has handed to the socket
InPipeline ==
    SeqsOf(queue)
        \cup (IF item \in {NoObs, Sentinel} THEN {} ELSE {item["seq"]})
        \cup (IF encoded = NoObs THEN {} ELSE {encoded["seq"]})
        \cup {hist.sends[i].payload["seq"] : i \in DOMAIN hist.sends}

\* the step of main() that returns from publish on a full queue
PublishOnFull ==
    /\ mpc = "publish" /\ mpc' = "sleep"
    /\ camera_keys # {}
    /\ Len(queue) = QueueMaxSize

\* C4: publish on a full backlog queue (cameras configured) returns without
\* blocking and without raising, leaves the queue unchanged (the new
\* observation is dropped, nothing queued is evicted), and the dropped
\* observation is never encoded or transmitted afterwards.
C4_PublishOnFullDrops ==
    /\ [](mpc = "publish" => ENABLED M_Publish)
    /\ [][PublishOnFull =>
            /\ queue' = queue
            /\ last_observation["seq"] \in hist'.dropped]_vars
    /\ [](hist.dropped \cap InPipeline = {})

\* an observation was dropped on a full queue, and afterwards the thread
\* took both queued observations through encode and send
C4_Witness ==
    /\ hist.dropped # {}
    /\ Len(hist.sends) = QueueMaxSize
    /\ queue = << >>

\* ---- C6
\* C6 (as claimed): while the watchdog is active, any command that is
\* received and decoded returns the loop to NORMAL in that iteration: the
\* flag is cleared and last_cmd_time is updated.
C6_DecodedCommandClearsWatchdog ==
    (mpc = "watchdog" /\ loop_hist.iter_halted
        /\ loop_hist.iter_recv \in {"forwarded", "forward_failed"})
    => (~watchdog_active /\ last_cmd_time = loop_hist.poll_time)

\* C6 (amended): while the watchdog is active, any command that is
\* received, decoded and forwarded (robot.send_action returns) returns the
\* loop to NORMAL in that iteration: the flag is cleared and last_cmd_time
\* is set to the time of the forwarding.
C6_ForwardedCommandClearsWatchdog ==
    (mpc = "watchdog" /\ loop_hist.iter_halted
        /\ loop_hist.iter_recv = "forwarded")
    => (~watchdog_active /\ last_cmd_time = loop_hist.poll_time
            /\ last_cmd_time >= loop_start_time)

\* the loop was HALTED, forwarded a command and is NORMAL again
C6_Witness ==
    /\ mpc = "watchdog"
    /\ loop_hist.iter_halted
    /\ loop_hist.iter_recv = "forwarded"
    /\ loop_hist.stop_base = 1
    /\ ~watchdog_active

\* ---- C7
\* C7 (as claimed): in every reachable state of the control loop,
\* watchdog_active implies robot.stop_base() has been invoked and has
\* completed since the last successfully forwarded command.
C7_ActiveImpliesStopped ==
    (mpc \in LoopPcs /\ watchdog_active) => loop_hist.stop_done

\* C7 (amended): the same in every state of the control loop other than
\* the one between the assignment watchdog_active = True and the return of
\* the robot.stop_base() call that follows it.
C7_ActiveImpliesStoppedAfterCall ==
    (mpc \in LoopPcs \ {"stop_base"} /\ watchdog_active)
        => loop_hist.stop_done

\* a later iteration finds the loop HALTED, with the base stopped
C7_Witness ==
    /\ mpc = "recv"
    /\ watchdog_active
    /\ loop_hist.stop_done

\* ---- C8
\* C8: _encode_observation returns an observation with the key set of its
\* input in which, for every configured camera key, an absent frame yields
\* "", a failed encode yields "" and a successful encode yields the encoded
\* string, whatever happens to the other cameras; no exception escapes and
\* the non-camera fields are returned unchanged.
C8_EncodeObservationPerCamera ==
    /\ tpc # "exited"
    /\ tpc = "send" =>
        /\ DOMAIN encoded = DOMAIN item
        /\ \A k \in DOMAIN item :
            IF k \in camera_keys
            THEN /\ item[k] = "None" => encoded[k] = ""
                 /\ item[k] \in {"unenc", "corrupt"} => encoded[k] = ""
                 /\ item[k] = "img1" => encoded[k] = "b64jpg1"
                 /\ item[k] = "img2" => encoded[k] = "b64jpg2"
            ELSE encoded[k] = item[k]

\* cameras {A, B}: A's frame is absent and B's encode fails
C8_Witness ==
    /\ tpc = "send"
    /\ camera_keys = {"camA", "camB"}
    /\ item = [camA |-> "None", camB |-> "corrupt", battery |-> 87]
    /\ encoded = [camA |-> "", camB |-> "", battery |-> 87]

\* ---- C9
\* the mappings that decoding the messages of a sequence yields, in order
RECURSIVE DecodedOf(_)
DecodedOf(msgs) ==
    IF msgs = << >> THEN << >>
    ELSE (IF Decodable(Head(msgs)) THEN <<Decode(Head(msgs))>> ELSE << >>)
            \o DecodedOf(Tail(msgs))

\* the received messages whose processing is over
Processed ==
    IF mpc = "forward"
    THEN SubSeq(loop_hist.received, 1, Len(loop_hist.received) - 1)
    ELSE loop_hist.received

\* C9: every command received by the loop and decoded successfully results
\* in exactly one robot.send_action call, with the decoded mapping as its
\* argument, and send_action is called with nothing else.
C9_SendActionGetsDecodedCommand ==
    mpc \in LoopPcs =>
        /\ loop_hist.send_action = DecodedOf(Processed)
        /\ \A i \in DOMAIN loop_hist.send_action :
            loop_hist.send_action[i] \in {[joint1 |-> 5], [joint1 |-> 7]}

\* the command {"joint1": 5} went through the channel to send_action, after
\* a message that did not decode
C9_Witness ==
    /\ mpc = "watchdog"
    /\ Len(loop_hist.received) = 2
    /\ loop_hist.received[1].kind = "garbage"
    /\ loop_hist.send_action = << [joint1 |-> 5] >>

\* ---- C10
\* the send_string calls that raised zmq.Again
WouldBlock == {i \in DOMAIN hist.sends : ~hist.sends[i].sent}

\* the step of the background thread whose send raises zmq.Again
SendWouldBlock ==
    /\ tpc = "send" /\ tpc' # "send"
    /\ Len(hist'.sends) = Len(hist.sends) + 1
    /\ ~hist'.sends[Len(hist'.sends)].sent

\* C10: an observation the background thread dequeued while no client is
\* connected is dropped: it is transmitted zero times, its send is not
\* retried, it is not enqueued again, the queue is left as the dequeue left
\* it, and the thread goes on to wait for the next observation.
C10_WouldBlockDrops ==
    /\ [][SendWouldBlock => (queue' = queue /\ tpc' = "check")]_vars
    /\ [](camera_keys # {} =>
            \A i \in WouldBlock :
                /\ \A j \in DOMAIN hist.sends :
                    hist.sends[j].payload["seq"]
                        = hist.sends[i].payload["seq"] => j = i
                /\ hist.sends[i].payload["seq"] \notin SeqsOf(queue)
                /\ item \notin {NoObs, Sentinel}
                    => item["seq"] # hist.sends[i].payload["seq"])

\* the thread dropped an observation on zmq.Again and transmitted a later one
C10_Witness ==
    /\ camera_keys # {}
    /\ \E i \in WouldBlock : \E j \in DOMAIN hist.sends :
        j > i /\ hist.sends[j].sent

\* ---- C11
\* the observations handed to send_string, by seq number
Delivered == {hist.sends[i].payload["seq"] : i \in DOMAIN hist.sends}

\* C11 as stated: stop() drains the backlog, so when stop() has returned
\* every observation publish() put on the queue has been encoded and handed
\* to the non-blocking send.
C11_StopDrainsBacklog ==
    (camera_keys # {} /\ StopReturned) => hist.accepted \subseteq Delivered

\* C11 as amended: stop() finishes the work in flight, so when stop() has
\* returned (and from then on, the sockets being closed afterwards) the
\* background thread has exited, no observation is held between dequeue and
\* send, and every observation publish() put on the queue has either been
\* handed to the non-blocking send or is still in the queue, where it stays
\* unsent.
C11_StopFinishesInFlight ==
    (camera_keys # {} /\ StopReturned) =>
        /\ ~IsAlive
        /\ item \in {NoObs, Sentinel}
        /\ encoded = NoObs
        /\ hist.accepted = Delivered \cup SeqsOf(queue)
        /\ Delivered \cap SeqsOf(queue) = {}
        /\ hist.shutdown = <<"robot_disconnect", "streamer_stop">>
                => obs_socket_open

\* the sockets are closed after a stop() that delivered one accepted
\* observation and left another in the queue
C11_Witness ==
    /\ camera_keys # {}
    /\ mpc = "done"
    /\ Delivered # {}
    /\ SeqsOf(queue) # {}

\* ---- C12
\* C12: the encoder pool is shut down only after the background thread has
\* exited: whenever the pool is shut down the thread has exited, and every
\* step in which the thread encodes an observation (submits its frames to
\* the pool) is taken with the pool open and leaves the encoded observation
\* ready to send; no encode ends on a pool that was shut down.
C12_PoolShutdownAfterThreadExit ==
    /\ [](pool = "shutdown" => tpc = "exited")
    /\ [][tpc = "encode" /\ tpc' # "encode"
            => pool = "open" /\ pool' = "open" /\ tpc' = "send"]_vars

\* the pool is shut down after a join that waited for a thread which had
\* encoded and sent an observation and then took the sentinel
C12_Witness ==
    /\ pool = "shutdown"
    /\ tpc = "exited"
    /\ item = Sentinel
    /\ Len(hist.sends) >= 1

\* ---- C13
\* C13: the observation backlog queue never holds more than 2 entries, the
\* shutdown sentinel included, whatever publish(), the background thread
\* and stop() do.
C13_QueueNeverExceedsCapacity ==
    Len(queue) <= QueueMaxSize /\ Cardinality(SeqsOf(queue)) <= QueueMaxSize

\* the queue is at capacity with the sentinel in it, after publish() had to
\* drop an observation
C13_Witness ==
    /\ Len(queue) = QueueMaxSize
    /\ queue[QueueMaxSize] = Sentinel
    /\ hist.dropped # {}

\* ---- C14
\* the pool the streamer was built with
PoolOfStreamer == IF camera_keys = {} THEN "none" ELSE "open"

\* C14: the observations handed to send_string are an order-preserving
\* subsequence of the observations passed to publish(): each payload is the
\* encoding of an observation that was published, no published observation
\* is sent twice, and they are sent in the order of publication (the n-th
\* call of publish passes the observation with seq n).
C14_SendsSubsequenceOfPublished ==
    /\ \A i \in DOMAIN hist.sends :
        /\ hist.sends[i].payload["seq"] \in 1..hist.published
        /\ \E o \in Observations(hist.sends[i].payload["seq"]) :
            hist.sends[i].payload
                = EncodeObservation(camera_keys, PoolOfStreamer, o)
    /\ \A i, j \in DOMAIN hist.sends :
        i < j => hist.sends[i].payload["seq"] < hist.sends[j].payload["seq"]

\* the run is over, with cameras: two observations were sent and more were
\* published than sent
C14_Witness ==
    /\ camera_keys # {}
    /\ mpc = "done"
    /\ Len(hist.sends) >= 2
    /\ hist.published > Len(hist.sends)

\* ---- C15
\* the step of main() in which json.loads or robot.send_action raises and
\* the except clause catches it
FailedCommand ==
    /\ mpc = "forward" /\ mpc' = "watchdog"
    /\ loop_hist'.iter_recv \in {"undecodable", "forward_failed"}

\* C15: a command that fails to decode or to be forwarded does not stop the
\* loop: the step leaves watchdog_active and last_cmd_time as they were and
\* goes on to the watchdog, and the iteration is then at the watchdog, the
\* observation, the publish or the sleep, from where the next iteration
\* starts.
C15_FailedCommandKeepsLoopRunning ==
    /\ [][FailedCommand => /\ watchdog_active' = watchdog_active
                           /\ last_cmd_time' = last_cmd_time]_vars
    /\ [][(mpc = "forward" /\ mpc' \in LoopPcs \ {"forward"})
            => mpc' = "watchdog"]_vars
    /\ [](loop_hist.iter_recv \in {"undecodable", "forward_failed"}
            => mpc \in {"watchdog", "stop_base", "observe", "publish",
                        "sleep", "loop_check"})

\* an iteration whose command failed has published its observation, and a
\* later iteration has forwarded a command and published again
C15_Witness ==
    /\ mpc = "sleep"
    /\ ~loop_hist.all_forwarded
    /\ loop_hist.iter_recv = "forwarded"
    /\ hist.published >= 2

\* ---- C16
\* the step of main() that calls publish
PublishCall == mpc = "publish" /\ mpc' = "sleep"

\* C16: with no cameras publish() sends the observation in the caller and
\* never enqueues it: each call adds one send_string of that observation,
\* made by main's thread; the queue is empty in every state, there is no
\* background thread and no encoder pool, and stop() never reaches the
\* sentinel put or the join.
C16_NoCamerasSendsSynchronously ==
    /\ [](camera_keys = {} =>
            /\ queue = << >>
            /\ tpc = "none" /\ pool = "none"
            /\ item = NoObs /\ encoded = NoObs
            /\ hist.accepted = {} /\ hist.dropped = {}
            /\ Len(hist.sends) = hist.published
            /\ mpc \notin {"stop_put", "stop_join"})
    /\ [][(camera_keys = {} /\ PublishCall) =>
            /\ Len(hist'.sends) = Len(hist.sends) + 1
            /\ hist'.sends[Len(hist'.sends)].payload = last_observation
            /\ hist'.sends[Len(hist'.sends)].by = "main"]_vars

\* a run without cameras is over: two observations were sent from publish
\* and stop() has returned
C16_Witness ==
    /\ camera_keys = {}
    /\ mpc = "done"
    /\ Len(hist.sends) >= 2
    /\ hist.shutdown = <<"robot_disconnect", "streamer_stop",
                         "host_disconnect">>

\* ---- C17
\* the one thread that may call send_string on the observation socket
SocketOwner == IF camera_keys = {} THEN "main" ELSE "streamer"

\* C17: the observation socket is used by one thread only and never after
\* it was closed: every send_string is made by the background thread when
\* there are cameras and by main's thread when there are none, every
\* send_string is made on the open socket, and once the socket is closed the
\* background thread is not running.
C17_SocketSingleOwnerNeverUsedClosed ==
    /\ [](\A i \in DOMAIN hist.sends : hist.sends[i].by = SocketOwner)
    /\ [](~obs_socket_open => ~IsAlive)
    /\ [][Len(hist'.sends) > Len(hist.sends) => obs_socket_open]_vars
    /\ [][tpc = "send" /\ tpc' # "send"
            => obs_socket_open /\ tpc' = "check"]_vars

\* with cameras, the socket was closed after the background thread, which
\* had sent an observation and had publish() drop another, exited
C17_Witness ==
    /\ camera_keys # {}
    /\ ~obs_socket_open
    /\ tpc = "exited"
    /\ hist.dropped # {}
    /\ \E i \in DOMAIN hist.sends : hist.sends[i].by = "streamer"

\* ---- C18
\* C18: once the stop flag is set the background thread eventually exits,
\* with or without a sentinel on the queue, and it dequeues at most one
\* observation after the flag was set.
C18_ThreadExitsAfterStopFlag ==
    /\ (stop_event /\ camera_keys # {}) ~> ~IsAlive
    /\ [](hist.late_gets <= 1)

\* the thread dequeued and sent one observation after the flag was set and
\* then left its loop on the flag, the sentinel never having been enqueued
C18_Witness ==
    /\ stop_event
    /\ tpc = "exited"
    /\ hist.late_gets = 1
    /\ item = NoObs
    /\ mpc = "stop_put"

\* ---- C19
\* C19: main() starts an iteration only while the duration measured at the
\* end of the previous one is below the session duration, and the loop
\* eventually ends; the sleep at the end of an iteration is
\* max(period - elapsed, 0) from the iteration's own start time, so it is
\* never negative, and an iteration that overran does not sleep.
C19_LoopPacedAndTerminates ==
    /\ <>(mpc \notin LoopPcs)
    /\ [](mpc \in LoopPcs \ {"loop_check"} => duration < ConnectionTime)
    /\ [](mpc = "loop_check" => duration = clock - start)
    /\ [][(mpc = "loop_check" /\ mpc' = "recv")
            => duration < ConnectionTime /\ loop_start_time' = clock]_vars
    /\ [][(mpc = "sleep" /\ mpc' = "loop_check") =>
            /\ clock' - clock = Max(LoopPeriod - (clock - loop_start_time), 0)
            /\ clock' >= clock
            /\ (clock - loop_start_time >= LoopPeriod => clock' = clock)
            /\ duration' = clock' - start]_vars

\* two iterations are over: the first overran its period and did not
\* sleep, the second slept for the whole of its own period
C19_Witness ==
    /\ mpc = "loop_check"
    /\ obs_count = 2
    /\ loop_start_time > LoopPeriod
    /\ clock - loop_start_time = LoopPeriod
    /\ duration = clock - start

\* ---- C20
\* C20: the watchdog timer runs from startup: until a command is forwarded
\* last_cmd_time is the time of startup, and an iteration that evaluated the
\* watchdog later than the timeout after startup with no command forwarded
\* so far has the watchdog active and robot.stop_base() called, once.
C20_WatchdogTimerStartsAtStartup ==
    /\ (mpc \in LoopPcs /\ ~loop_hist.forwarded_any) => last_cmd_time = start
    /\ (/\ mpc \in {"observe", "publish"}
        /\ ~loop_hist.forwarded_any
        /\ clock - start > WatchdogTimeout)
            => watchdog_active /\ loop_hist.stop_base = 1

\* the base was stopped although no message was ever received
C20_Witness ==
    /\ mpc = "publish"
    /\ loop_hist.received = << >>
    /\ arrivals = 0
    /\ watchdog_active
    /\ loop_hist.stop_base = 1

====
